---- MODULE Spec2Model ----
(***************************************************************************)
(* Model of equations.py: the number of positive integral solutions of     *)
(* 1/x + 1/y = 1/N!, modulo 1000007, computed as the number of divisors of *)
(* (N!)^2 from the prime factorisation of N!.                              *)
(*                                                                         *)
(* The program is Python 2 (raw_input, the print statement): integers are  *)
(* unbounded and `/` on two integers is floor division.                    *)
(***************************************************************************)
EXTENDS Integers, Sequences, FiniteSets, TLC

\* equations.py:98
MODULUS_TERM == 1000007

\* Largest N read by main() in the exhaustive specification.
MaxN == 30

\* Largest N whose (N!)^2 has its divisors enumerated one by one.
CrossCheckMaxN == 5

\* Largest N for which all pairs (x, y) up to N! + (N!)^2 are enumerated.
PairsMaxN == 3

\* Largest N whose N! is formed as a literal integer.
FactMaxN == 11

\* The sample inputs 01 and 02 of the problem statement (equations.py:27, 32)
\* and their expected outputs (equations.py:29, 34).
SampleInput01 == 32327
SampleOutput01 == 656502
SampleInput02 == 40921
SampleOutput02 == 686720

VARIABLES
  N,              \* main: the integer read from the input
  pc,             \* position of the control flow
  isPrime,        \* GetPrimesUpTo: the marking array, held as the set of the indices
                  \* whose entry is True (a local: {} outside the call)
  primes,         \* GetPrimesUpTo / NumDivisors: the list of primes found
  i,              \* GetPrimesUpTo: the candidate of the outer loop
  pidx,           \* NumDivisors: position of `for p in primes` (1-based)
  p,              \* GetPrimeExponent: the prime argument
  remainingN,     \* GetPrimeExponent: the running value
  exponent,       \* GetPrimeExponent: the accumulated exponent
  iter,           \* GetPrimeExponent: iterations of the while loop executed so far
  primeExponents, \* NumDivisors: prime -> exponent (the Counter)
  pending,        \* NumDivisors: keys of the Counter the product loop has not visited
  result          \* NumDivisors: the modular accumulator

vars == <<N, pc, isPrime, primes, i, pidx, p, remainingN, exponent, iter,
          primeExponents, pending, result>>

-----------------------------------------------------------------------------
(* Helpers translated from the source's expressions.                       *)

\* Python's range(start, stop, step) for step > 0, as the set of its values.
Range(start, stop, step) ==
  {start + k * step : k \in 0..((stop - 1 - start) \div step)}

\* len(range(start, stop, step)) for step > 0: the iterations of a for loop.
RangeLen(start, stop, step) ==
  IF stop <= start THEN 0 ELSE (stop - start + step - 1) \div step

\* isPrime = [True] * (rangeEnd+1): every index 0..rangeEnd holds True
\*                                                      (equations.py:105)
NewMarking(rangeEnd) == 0..rangeEnd

\* The slips of the special case: 2 forgotten, and the test written 1 <= rangeEnd.
InitialPrimesNoTwo(rangeEnd) == <<>>

InitialPrimesFromOne(rangeEnd) == IF 1 <= rangeEnd THEN <<2>> ELSE <<>>

\* primes = []; if 2 <= rangeEnd: primes.append(2)     (equations.py:108-113)
InitialPrimes(rangeEnd) == IF 2 <= rangeEnd THEN <<2>> ELSE <<>>

\* The off-by-one slip range(i, rangeEnd, i): rangeEnd itself is never marked.
MarkMultiplesShort(marking, cand, rangeEnd) ==
  marking \ Range(cand, rangeEnd, cand)

\* for multiple in range(i, rangeEnd+1, i): isPrime[multiple] = False
\*                                                      (equations.py:122-123)
MarkMultiples(marking, cand, rangeEnd) ==
  marking \ Range(cand, rangeEnd + 1, cand)

\* The slip `while remainingN >= 0`.
LoopConditionNonNegative(r) == r >= 0

\* while remainingN > 1                                 (equations.py:137)
LoopCondition(r) == r > 1

\* A division that rounds to the nearest integer instead of flooring.
DivideRound(r, q) == (2 * r + q) \div (2 * q)

\* remainingN /= p : Python 2 integer division, which floors
\*                                                      (equations.py:138)
Divide(r, q) == r \div q

\* The two statements in the wrong order: the value is added before it is
\* divided.
LegendreBodySwapped(r, e, q) ==
  [remainingN |-> Divide(r, q), exponent |-> e + r]

\* remainingN /= p; exponent += remainingN             (equations.py:138-139)
LegendreBody(r, e, q) ==
  [remainingN |-> Divide(r, q), exponent |-> e + Divide(r, q)]

\* (a * b) % MODULUS_TERM on Python's unbounded integers. The product is
\* formed in two parts (b = 1000*bh + bl) so that no intermediate value
\* exceeds TLC's 32-bit integers; the value is that of (a*b) % M.
MulMod(a, b) ==
  LET bh == b \div 1000
      bl == b % 1000
  IN  (((a * bh) % MODULUS_TERM) * 1000 + a * bl) % MODULUS_TERM

\* Slips of the product step: the exponent of N! instead of (N!)^2, the +1
\* forgotten, the reduction forgotten, and result = result*2*e + 1.
MultiplyReduceSingle(r, e) == MulMod(r, e + 1)

MultiplyReduceNoPlusOne(r, e) == MulMod(r, 2 * e)

MultiplyNoReduce(r, e) == r * (2 * e + 1)

MultiplyReduceUngrouped(r, e) == (MulMod(r, 2 * e) + 1) % MODULUS_TERM

\* result *= (2*e + 1); result %= MODULUS_TERM          (equations.py:160-165)
MultiplyReduce(r, e) == MulMod(r, 2 * e + 1)

\* The body of `for i in range(3, rangeEnd+1, 2)` on the locals
\* s = [isPrime, primes, i]; the last field is the loop's advance to the
\* next candidate.                                      (equations.py:117-123)
SieveBody(s, rangeEnd) ==
  IF s.i \in s.isPrime
    THEN [isPrime |-> MarkMultiples(s.isPrime, s.i, rangeEnd),
          primes  |-> Append(s.primes, s.i),
          i       |-> s.i + 2]
    ELSE [isPrime |-> s.isPrime, primes |-> s.primes, i |-> s.i + 2]

\* The body of `for e in primeExponents.values()` on s = [result, pending],
\* visiting the value stored under `key`.               (equations.py:159-165)
ProductBody(s, mapping, key) ==
  [result  |-> MultiplyReduce(s.result, mapping[key]),
   pending |-> s.pending \ {key}]

-----------------------------------------------------------------------------
(* The state machine: main() -> NumDivisors(N).                            *)

InitWith(inputs) ==
  /\ N \in inputs
  /\ pc = "start"
  /\ isPrime = {}
  /\ primes = <<>>
  /\ i = 0
  /\ pidx = 0
  /\ p = 0
  /\ remainingN = 0
  /\ exponent = 0
  /\ iter = 0
  /\ primeExponents = <<>>
  /\ pending = {}
  /\ result = 0

\* N = int(raw_input()): every integer 0..MaxN
Init == InitWith(0..MaxN)

\* NumDivisors calls GetPrimesUpTo(N); lines 105-113 and the loop header.
SieveEnter ==
  /\ pc = "start"
  /\ isPrime' = NewMarking(N)
  /\ primes' = InitialPrimes(N)
  /\ i' = 3
  /\ pc' = "sieve"
  /\ UNCHANGED <<N, pidx, p, remainingN, exponent, iter, primeExponents,
                 pending, result>>

\* One iteration of `for i in range(3, rangeEnd+1, 2)` with isPrime[i] True:
\* append i and mark all its multiples.
SievePrime ==
  /\ pc = "sieve"
  /\ i < N + 1
  /\ i \in isPrime
  /\ LET s == SieveBody([isPrime |-> isPrime, primes |-> primes, i |-> i], N)
     IN  /\ isPrime' = s.isPrime
         /\ primes' = s.primes
         /\ i' = s.i
  /\ UNCHANGED <<N, pc, pidx, p, remainingN, exponent, iter, primeExponents,
                 pending, result>>

\* One iteration of the outer loop with isPrime[i] False: nothing happens.
SieveSkip ==
  /\ pc = "sieve"
  /\ i < N + 1
  /\ i \notin isPrime
  /\ LET s == SieveBody([isPrime |-> isPrime, primes |-> primes, i |-> i], N)
     IN  /\ isPrime' = s.isPrime
         /\ primes' = s.primes
         /\ i' = s.i
  /\ UNCHANGED <<N, pc, pidx, p, remainingN, exponent, iter,
                 primeExponents, pending, result>>

\* The range is exhausted: return primes; NumDivisors creates the Counter
\* and enters `for p in primes`.
SieveReturn ==
  /\ pc = "sieve"
  /\ ~(i < N + 1)
  /\ isPrime' = {}
  /\ primeExponents' = <<>>
  /\ pidx' = 1
  /\ pc' = "exponents"
  /\ UNCHANGED <<N, primes, i, p, remainingN, exponent, iter, pending, result>>

\* for p in primes: call GetPrimeExponent(N, p); its lines 134-135.
ExponentCall ==
  /\ pc = "exponents"
  /\ pidx <= Len(primes)
  /\ p' = primes[pidx]
  /\ remainingN' = N
  /\ exponent' = 0
  /\ iter' = 0
  /\ pc' = "legendre"
  /\ UNCHANGED <<N, isPrime, primes, i, pidx, primeExponents, pending, result>>

\* One iteration of `while remainingN > 1`.
LegendreStep ==
  /\ pc = "legendre"
  /\ LoopCondition(remainingN)
  /\ remainingN' = LegendreBody(remainingN, exponent, p).remainingN
  /\ exponent' = LegendreBody(remainingN, exponent, p).exponent
  /\ iter' = iter + 1
  /\ UNCHANGED <<N, pc, isPrime, primes, i, pidx, p, primeExponents, pending,
                 result>>

\* The loop exits: return exponent; primeExponents[p] = <returned value>.
LegendreReturn ==
  /\ pc = "legendre"
  /\ ~LoopCondition(remainingN)
  /\ primeExponents' = (p :> exponent) @@ primeExponents
  /\ pidx' = pidx + 1
  /\ pc' = "exponents"
  /\ UNCHANGED <<N, isPrime, primes, i, p, remainingN, exponent, iter, pending,
                 result>>

\* `for p in primes` is exhausted: result = 1 and the product loop starts
\* over primeExponents.values().
ProductEnter ==
  /\ pc = "exponents"
  /\ ~(pidx <= Len(primes))
  /\ result' = 1
  /\ pending' = DOMAIN primeExponents
  /\ pc' = "product"
  /\ UNCHANGED <<N, isPrime, primes, i, pidx, p, remainingN, exponent, iter,
                 primeExponents>>

\* The product loop visits the value stored under `key`.
ProductVisit(key) ==
  /\ LET s == ProductBody([result |-> result, pending |-> pending],
                          primeExponents, key)
     IN  /\ result' = s.result
         /\ pending' = s.pending
  /\ UNCHANGED <<N, pc, isPrime, primes, i, pidx, p, remainingN, exponent, iter,
                 primeExponents>>

\* One iteration of `for e in primeExponents.values()`. A Counter is a dict:
\* the order of its values is the hash-table order, taken here as arbitrary.
ProductStep ==
  /\ pc = "product"
  /\ \E key \in pending : ProductVisit(key)

\* return result
ProductReturn ==
  /\ pc = "product"
  /\ pending = {}
  /\ pc' = "done"
  /\ UNCHANGED <<N, isPrime, primes, i, pidx, p, remainingN, exponent, iter,
                 primeExponents, pending, result>>

Next ==
  \/ SieveEnter
  \/ SievePrime
  \/ SieveSkip
  \/ SieveReturn
  \/ ExponentCall
  \/ LegendreStep
  \/ LegendreReturn
  \/ ProductEnter
  \/ ProductStep
  \/ ProductReturn

Spec == Init /\ [][Next]_vars

-----------------------------------------------------------------------------
(* The same program with each loop taken as one step, so that the large    *)
(* sample inputs are within reach. A loop of `count` iterations applies    *)
(* the loop body `count` times; the run is split in halves only to keep    *)
(* the depth of the evaluation logarithmic in `count`.                     *)

\* At most `count` iterations of the outer loop of GetPrimesUpTo; none once
\* the range is exhausted.
RECURSIVE SieveRun(_, _, _)
SieveRun(s, rangeEnd, count) ==
  IF count = 0 \/ ~(s.i < rangeEnd + 1) THEN s
  ELSE IF count = 1 THEN SieveBody(s, rangeEnd)
  ELSE SieveRun(SieveRun(s, rangeEnd, count \div 2),
                rangeEnd, count - count \div 2)

\* GetPrimesUpTo(rangeEnd) as a whole call.              (equations.py:104-125)
GetPrimesUpTo(rangeEnd) ==
  SieveRun([isPrime |-> NewMarking(rangeEnd),
            primes  |-> InitialPrimes(rangeEnd),
            i       |-> 3],
           rangeEnd, RangeLen(3, rangeEnd + 1, 2)).primes

\* The while loop of GetPrimeExponent, from the locals r and e on.
RECURSIVE LegendreLoop(_, _, _)
LegendreLoop(r, e, q) ==
  IF LoopCondition(r)
    THEN LegendreLoop(LegendreBody(r, e, q).remainingN,
                      LegendreBody(r, e, q).exponent, q)
    ELSE e

\* GetPrimeExponent(N, p) as a whole call.               (equations.py:133-141)
GetPrimeExponent(n, q) == LegendreLoop(n, 0, q)

\* The body of `for p in primes` on s = [primeExponents, pidx]:
\* primeExponents[p] = GetPrimeExponent(N, p).           (equations.py:154-155)
ExponentBody(s, found, n) ==
  [primeExponents |->
     (found[s.pidx] :> GetPrimeExponent(n, found[s.pidx])) @@ s.primeExponents,
   pidx |-> s.pidx + 1]

\* At most `count` iterations of `for p in primes`; none once the list is
\* exhausted.
RECURSIVE ExponentRun(_, _, _, _)
ExponentRun(s, found, n, count) ==
  IF count = 0 \/ ~(s.pidx <= Len(found)) THEN s
  ELSE IF count = 1 THEN ExponentBody(s, found, n)
  ELSE ExponentRun(ExponentRun(s, found, n, count \div 2),
                   found, n, count - count \div 2)

\* At most `count` iterations of the product loop, the keys taken in
\* ascending order; none once every value has been visited.
RECURSIVE ProductRun(_, _, _)
ProductRun(s, mapping, count) ==
  IF count = 0 \/ s.pending = {} THEN s
  ELSE IF count = 1
    THEN ProductBody(s, mapping,
                     CHOOSE k \in s.pending : \A other \in s.pending : k <= other)
  ELSE ProductRun(ProductRun(s, mapping, count \div 2),
                  mapping, count - count \div 2)

\* primes = GetPrimesUpTo(N); primeExponents = Counter()
CallGetPrimesUpTo ==
  /\ pc = "start"
  /\ primes' = GetPrimesUpTo(N)
  /\ primeExponents' = <<>>
  /\ pidx' = 1
  /\ pc' = "exponents"
  /\ UNCHANGED <<N, isPrime, i, p, remainingN, exponent, iter, pending, result>>

\* The whole of `for p in primes`. The locals of the GetPrimeExponent calls
\* are gone when each call returns; p, remainingN, exponent and iter are
\* left as they are.
ExponentsAll ==
  /\ pc = "exponents"
  /\ pidx <= Len(primes)
  /\ LET s == ExponentRun([primeExponents |-> primeExponents, pidx |-> pidx],
                          primes, N, Len(primes))
     IN  /\ primeExponents' = s.primeExponents
         /\ pidx' = s.pidx
  /\ UNCHANGED <<N, pc, isPrime, primes, i, p, remainingN, exponent, iter,
                 pending, result>>

\* The whole of `for e in primeExponents.values()`.
ProductAll ==
  /\ pc = "product"
  /\ pending # {}
  /\ LET s == ProductRun([result |-> result, pending |-> pending],
                         primeExponents, Cardinality(pending))
     IN  /\ result' = s.result
         /\ pending' = s.pending
  /\ UNCHANGED <<N, pc, isPrime, primes, i, pidx, p, remainingN, exponent, iter,
                 primeExponents>>

\* main() run on the small inputs and on the two large sample inputs of the
\* problem statement.
InitSample == InitWith((0..MaxN) \cup {SampleInput01, SampleInput02})

NextSample ==
  \/ CallGetPrimesUpTo
  \/ ExponentsAll
  \/ ProductEnter
  \/ ProductAll
  \/ ProductReturn

SpecSample == InitSample /\ [][NextSample]_vars

\* The program is a single thread that runs until main() returns: a step
\* that can be taken is taken.
FairSpec == Spec /\ WF_vars(Next)

-----------------------------------------------------------------------------
(* Reference notions the properties compare the program against. None of   *)
(* them is taken from the program.                                         *)

\* N! as a literal integer.
RECURSIVE Factorial(_)
Factorial(n) == IF n <= 1 THEN 1 ELSE n * Factorial(n - 1)

\* The number of positive divisors of m, by trying every d in 1..m.
NumDivisorsOf(m) == Cardinality({d \in 1..m : m % d = 0})

\* The number of ordered pairs (x, y) of positive integers with
\* 1/x + 1/y = 1/f, i.e. x*y = f*(x + y), among all x, y up to f + f^2.
NumSolutionPairs(f) ==
  Cardinality({xy \in (1..(f + f * f)) \X (1..(f + f * f)) :
                 xy[1] * xy[2] = f * (xy[1] + xy[2])})

\* n is a prime number.
IsPrimeNumber(n) == n >= 2 /\ \A d \in 2..(n - 1) : n % d # 0

\* q^k
RECURSIVE Power(_, _)
Power(q, k) == IF k = 0 THEN 1 ELSE q * Power(q, k - 1)

\* The largest k with q^k <= n (floor of log_q n), for n >= 1, q >= 2.
RECURSIVE FloorLog(_, _)
FloorLog(q, n) == IF n < q THEN 0 ELSE 1 + FloorLog(q, n \div q)

\* floor(n/q^1) + ... + floor(n/q^k)
RECURSIVE FloorSum(_, _, _)
FloorSum(n, q, k) ==
  IF k = 0 THEN 0 ELSE n \div Power(q, k) + FloorSum(n, q, k - 1)

\* Legendre's formula: the sum over all k >= 1 of floor(n/q^k); the terms
\* with q^k > n are zero.
LegendreSum(n, q) == FloorSum(n, q, FloorLog(q, n))

\* The multiplicity of q in the prime factorisation of m >= 1.
RECURSIVE Multiplicity(_, _)
Multiplicity(m, q) ==
  IF m % q # 0 THEN 0 ELSE 1 + Multiplicity(m \div q, q)

\* The product of (2*k_q + 1) over the primes q in `qs`, k_q by Legendre's
\* formula, as an integer that is not reduced.
RECURSIVE DivisorProduct(_, _)
DivisorProduct(n, qs) ==
  IF qs = {} THEN 1
  ELSE LET q == CHOOSE x \in qs : TRUE
       IN  (2 * LegendreSum(n, q) + 1) * DivisorProduct(n, qs \ {q})

PrimesUpTo(n) == {q \in 2..n : IsPrimeNumber(q)}

\* GetPrimesUpTo has returned.
SieveReturned == pc \notin {"start", "sieve"}

\* The while loop of GetPrimeExponent is about to exit.
LegendreExit == pc = "legendre" /\ ~LoopCondition(remainingN)

\* The whole-call operators agree with the single-iteration steps: what a
\* loop has produced when it exits is what the operator computes in one go.
StepsAgree ==
  /\ SieveReturned => primes = GetPrimesUpTo(N)
  /\ LegendreExit => exponent = GetPrimeExponent(N, p)
  /\ pc \in {"product", "done"} =>
       primeExponents =
         ExponentRun([primeExponents |-> <<>>, pidx |-> 1],
                     primes, N, Len(primes)).primeExponents
  /\ pc = "done" =>
       result = ProductRun([result |-> 1, pending |-> DOMAIN primeExponents],
                           primeExponents,
                           Cardinality(DOMAIN primeExponents)).result

-----------------------------------------------------------------------------
(* Properties.                                                             *)

C2_SolutionPairs ==
  (pc = "done" /\ 1 <= N /\ N <= PairsMaxN) =>
     result = NumSolutionPairs(Factorial(N)) % MODULUS_TERM

C2_Witness == pc = "done" /\ N = PairsMaxN /\ result > 1

\* C3: result is in [0, 1000006] from its initialisation on, after every
\* multiply-then-reduce step, and when it is returned.
C3_ResultInRange ==
  (pc \in {"product", "done"} /\ N >= 1) =>
     result \in 0..(MODULUS_TERM - 1)

\* A run in which the reduction changed the accumulator.
C3_Witness ==
  /\ pc = "done"
  /\ N >= 1
  /\ DivisorProduct(N, PrimesUpTo(N)) >= MODULUS_TERM
  /\ result \in 0..(MODULUS_TERM - 1)

\* C4: NumDivisors(32327) = 656502 and NumDivisors(40921) = 686720.
C4_SampleOutputs ==
  pc = "done" =>
     /\ N = SampleInput01 => result = SampleOutput01
     /\ N = SampleInput02 => result = SampleOutput02

C4_Witness == pc = "done" /\ N = SampleInput02 /\ result = SampleOutput02

\* C5: for N = 1 the sieve returns no primes, the exponent mapping stays
\* empty, neither the exponent loop nor the product loop executes an
\* iteration, and 1 is returned.
C5_InputOne ==
  /\ [](N = 1 /\ SieveReturned => primes = <<>> /\ DOMAIN primeExponents = {})
  /\ [][N = 1 => ~(ExponentCall \/ LegendreStep \/ ProductStep)]_vars
  /\ [](N = 1 /\ pc = "done" => result = 1)

C5_Witness == N = 1 /\ pc = "done" /\ result = 1

\* C6: GetPrimesUpTo(limit), limit >= 0, returns exactly the primes in
\* [2, limit], each once, strictly ascending; nothing when limit < 2; and
\* [2, 3, 5, 7] for limit = 10.
C6_SievePrimes ==
  SieveReturned =>
     /\ \A k \in 1..(Len(primes) - 1) : primes[k] < primes[k + 1]
     /\ {primes[k] : k \in 1..Len(primes)} = PrimesUpTo(N)
     /\ N < 2 => primes = <<>>
     /\ N = 10 => primes = <<2, 3, 5, 7>>

C6_Witness == pc = "exponents" /\ pidx = 1 /\ N = 10 /\ primes = <<2, 3, 5, 7>>

\* C7: GetPrimeExponent(N, p) returns the sum over k >= 1 of floor(N/p^k),
\* which is the multiplicity of p in N! (N! formed literally for
\* N <= FactMaxN); the mapping stores that value; GetPrimeExponent(10, 2) = 8.
C7_Legendre ==
  /\ LegendreExit =>
       /\ IsPrimeNumber(p) /\ p <= N
       /\ exponent = LegendreSum(N, p)
       /\ N <= FactMaxN => exponent = Multiplicity(Factorial(N), p)
       /\ (N = 10 /\ p = 2) => exponent = 8
  /\ SieveReturned =>
       \A q \in DOMAIN primeExponents : primeExponents[q] = LegendreSum(N, q)

C7_Witness == LegendreExit /\ N = 10 /\ p = 2 /\ exponent = 8

\* C8: whatever order the product loop visits the exponents in, the value
\* returned is the product of (2*k_q + 1) over all primes q <= N, reduced
\* modulo 1000007.
C8_OrderIndependent ==
  pc = "done" =>
     /\ DOMAIN primeExponents = PrimesUpTo(N)
     /\ result = DivisorProduct(N, PrimesUpTo(N)) % MODULUS_TERM

\* An order other than the ascending one: 2 is visited last.
C8_Witness ==
  pc = "product" /\ N = MaxN /\ pending = {2} /\ result # 1

\* C9: after the k-th iteration of the loop of GetPrimeExponent, remainingN
\* is the integer floor(N/p^k) and exponent the integer sum of floor(N/p^j),
\* j = 1..k; both are non-negative integers at every step.
C9_FloorDivision ==
  pc = "legendre" =>
     /\ remainingN \in Nat
     /\ exponent \in Nat
     /\ remainingN = N \div Power(p, iter)
     /\ exponent = FloorSum(N, p, iter)

\* Three iterations done on an N that p^3 does not divide.
C9_Witness ==
  pc = "legendre" /\ iter = 3 /\ N % Power(p, iter) # 0 /\ remainingN >= 1

\* C10: the computation always reaches its result; in GetPrimeExponent p >= 2,
\* every iteration strictly decreases remainingN, the loop has run at most
\* floor(log_p N) + 1 times, and at its exit every further term
\* floor(N/p^k) of the sum is zero.
C10_Terminates ==
  /\ <>(pc = "done")
  /\ [][LegendreStep => remainingN' < remainingN]_vars
  /\ [](pc = "legendre" => p >= 2 /\ iter <= FloorLog(p, N) + 1)
  /\ [](LegendreExit => Divide(remainingN, p) = 0 /\ Power(p, iter + 1) > N)

C10_Witness == pc = "done" /\ N = MaxN /\ iter >= 1

====
